---- MODULE Spec2Model ----
(***************************************************************************)
(* LauncherModel (src/launchermodel.cpp): the list store m_items, the      *)
(* search overlay m_searchItems, the background scan (refresh) running on  *)
(* pool threads, and the owning thread's event queue through which the     *)
(* scan's addApp / removeApp / refreshed requests and the deferred         *)
(* deletions are executed.                                                 *)
(*                                                                         *)
(* Strings are sequences of one-character strings.  LauncherItem pointers  *)
(* are heap addresses; a released address can be handed out again by a     *)
(* later allocation.                                                       *)
(***************************************************************************)
EXTENDS Integers, Sequences, FiniteSets, TLC

VARIABLES
    env,            \* value of XDG_CURRENT_DESKTOP
    disk,           \* /usr/share/applications: path -> 0 (no file) or index into Catalogue
    m_items,        \* the store: sequence of item addresses
    m_searchItems,  \* the search overlay: sequence of item addresses
    m_mode,         \* "NormalMode" or "SearchMode"
    heap,           \* address -> LauncherItem fields
    allocated,      \* addresses of LauncherItem objects not yet destroyed
    queue,          \* posted events of the owning thread, oldest first
    pool,           \* refresh tasks handed to the thread pool and not yet started
    worker,         \* per pool thread: position and locals of LauncherModel::refresh
    changes,        \* file-system changes still to come
    lastOp,         \* the step taken last: thread, operation, argument, result
    emitted         \* what the last step did to observers and to the store, in order

vars == <<env, disk, m_items, m_searchItems, m_mode, heap, allocated, queue, pool,
          worker, changes, lastOp, emitted>>

----------------------------------------------------------------------------
(* Bounds *)

MaxChanges == 1    \* file-system changes in one behaviour
MaxQueue == 3      \* posted events a pool thread may find queued when it posts
MaxExecLen == 4    \* characters of a generated Exec value

Workers == {1, 2}  \* pool threads
Addr == 1..3       \* heap cells for LauncherItem objects

----------------------------------------------------------------------------
(* Characters and strings (QString / QByteArray) *)

\* The characters used, in ascending code-point order.
Punct == <<" ", "\"", "%", ".", "/", ";">>

UpperCase ==
    <<"A", "B", "C", "D", "E", "F", "G", "H", "I", "J", "K", "L", "M",
      "N", "O", "P", "Q", "R", "S", "T", "U", "V", "W", "X", "Y", "Z">>

LowerCase ==
    <<"a", "b", "c", "d", "e", "f", "g", "h", "i", "j", "k", "l", "m",
      "n", "o", "p", "q", "r", "s", "t", "u", "v", "w", "x", "y", "z">>

Chars == Punct \o UpperCase \o LowerCase

CharCode(c) == CHOOSE i \in 1..Len(Chars) : Chars[i] = c

toUpperChar(c) ==
    IF \E i \in 1..Len(LowerCase) : LowerCase[i] = c
    THEN UpperCase[CHOOSE i \in 1..Len(LowerCase) : LowerCase[i] = c]
    ELSE c

toLowerChar(c) ==
    IF \E i \in 1..Len(UpperCase) : UpperCase[i] = c
    THEN LowerCase[CHOOSE i \in 1..Len(UpperCase) : UpperCase[i] = c]
    ELSE c

\* QByteArray::toUpper
toUpper(s) == [i \in 1..Len(s) |-> toUpperChar(s[i])]

\* Case folding used by the Qt::CaseInsensitive comparisons.
foldCase(s) == [i \in 1..Len(s) |-> toLowerChar(s[i])]

\* QString::operator< : lexicographic by code unit.
RECURSIVE StrLess(_, _)
StrLess(a, b) ==
    IF b = <<>> THEN FALSE
    ELSE IF a = <<>> THEN TRUE
    ELSE IF CharCode(a[1]) # CharCode(b[1]) THEN CharCode(a[1]) < CharCode(b[1])
    ELSE StrLess(Tail(a), Tail(b))

\* QString::indexOf(key, 0, Qt::CaseSensitive) != -1
containsCS(s, key) ==
    \E i \in 0..(Len(s) - Len(key)) : \A j \in 1..Len(key) : s[i + j] = key[j]

\* QString::contains(key, Qt::CaseInsensitive)
containsCI(s, key) == containsCS(foldCase(s), foldCase(key))

\* QString::split(sep, Qt::SkipEmptyParts).
RECURSIVE split_skipEmptyParts(_, _)
split_skipEmptyParts(s, sep) ==
    IF \A i \in 1..Len(s) : s[i] # sep THEN (IF s = <<>> THEN <<>> ELSE <<s>>)
    ELSE LET k == CHOOSE i \in 1..Len(s) :
                      s[i] = sep /\ \A j \in 1..(i - 1) : s[j] # sep
         IN (IF k = 1 THEN <<>> ELSE <<SubSeq(s, 1, k - 1)>>)
               \o split_skipEmptyParts(SubSeq(s, k + 1, Len(s)), sep)

\* QString::split(sep) with the default Qt::KeepEmptyParts.
RECURSIVE split(_, _)
split(s, sep) ==
    IF \A i \in 1..Len(s) : s[i] # sep THEN <<s>>
    ELSE LET k == CHOOSE i \in 1..Len(s) :
                      s[i] = sep /\ \A j \in 1..(i - 1) : s[j] # sep
         IN <<SubSeq(s, 1, k - 1)>> \o split(SubSeq(s, k + 1, Len(s)), sep)

\* The removal taking away the '%' sign alone.
RECURSIVE removeFieldCodes_signOnly(_)
removeFieldCodes_signOnly(s) ==
    IF s = <<>> THEN <<>>
    ELSE IF s[1] = "%" THEN removeFieldCodes_signOnly(Tail(s))
    ELSE <<s[1]>> \o removeFieldCodes_signOnly(Tail(s))

\* QString::remove(QRegularExpression("%.")): every leftmost non-overlapping
\* match of '%' followed by one character is removed.
RECURSIVE removeFieldCodes(_)
removeFieldCodes(s) ==
    IF s = <<>> THEN <<>>
    ELSE IF s[1] = "%" /\ Len(s) >= 2 THEN removeFieldCodes(SubSeq(s, 3, Len(s)))
    ELSE <<s[1]>> \o removeFieldCodes(Tail(s))

\* QString::remove(QRegularExpression("^\"")): a leading quote is removed.
removeLeadingQuote(s) == IF s # <<>> /\ s[1] = "\"" THEN Tail(s) ELSE s

\* QString::replace("\"", ""): every quote is removed.
RECURSIVE removeQuotes(_)
removeQuotes(s) ==
    IF s = <<>> THEN <<>>
    ELSE IF s[1] = "\"" THEN removeQuotes(Tail(s))
    ELSE <<s[1]>> \o removeQuotes(Tail(s))

\* QString::simplified(): whitespace trimmed at both ends, inner runs of
\* whitespace replaced by one space.
RECURSIVE collapse(_, _)
collapse(s, pendingSpace) ==
    IF s = <<>> THEN <<>>
    ELSE IF s[1] = " " THEN collapse(Tail(s), TRUE)
    ELSE (IF pendingSpace THEN <<" ">> ELSE <<>>) \o <<s[1]>> \o collapse(Tail(s), FALSE)

RECURSIVE trimLeft(_)
trimLeft(s) == IF s # <<>> /\ s[1] = " " THEN trimLeft(Tail(s)) ELSE s

simplified(s) == collapse(trimLeft(s), FALSE)

\* Members of a QStringList / QList, as a set.
Range(q) == {q[i] : i \in 1..Len(q)}

----------------------------------------------------------------------------
(* Entry files (DesktopProperties) *)

\* Entry-file paths; "/" stands for the directory /usr/share/applications/.
Paths == {<<"/", "a">>, <<"/", "B">>}

\* Values XDG_CURRENT_DESKTOP may have.
Envs == {<<>>, <<"k">>}

\* The keys present in a "Desktop Entry" group that has none.
NoKeys == {}

\* One loaded entry: the keys present, and the value of each key (the value of
\* an absent key is the invalid QVariant: toBool() false, toString() empty).
Entry(has, name, nameLoc, exec, onlyShowIn, terminal, noDisplay, hidden) ==
    [has |-> has, Name |-> name, NameLocale |-> nameLoc, Exec |-> exec,
     OnlyShowIn |-> onlyShowIn, Terminal |-> terminal, NoDisplay |-> noDisplay,
     Hidden |-> hidden, Comment |-> <<>>, Icon |-> <<>>]

\* What DesktopProperties yields for a file that cannot be read.
NoEntry == Entry(NoKeys, <<>>, <<>>, <<>>, <<>>, FALSE, FALSE, FALSE)

\* The entry files a path may hold.
Catalogue ==
    << \* 1: Name=Ab, Exec=x %U
       Entry({"Name", "Exec"}, <<"A", "b">>, <<>>, <<"x", " ", "%", "U">>,
             <<>>, FALSE, FALSE, FALSE),
       \* 2: Name=c, Name[locale]=B, Exec="y" z, Terminal=false
       Entry({"Name", "NameLocale", "Exec", "Terminal"}, <<"c">>, <<"B">>,
             <<"\"", "y", "\"", " ", "z">>, <<>>, FALSE, FALSE, FALSE),
       \* 3: Terminal=true
       Entry({"Name", "Exec", "Terminal"}, <<"A", "b">>, <<>>, <<"x">>,
             <<>>, TRUE, FALSE, FALSE),
       \* 4: NoDisplay=true
       Entry({"Name", "Exec", "NoDisplay"}, <<"A", "b">>, <<>>, <<"x">>,
             <<>>, FALSE, TRUE, FALSE),
       \* 5: Hidden=true
       Entry({"Name", "Exec", "Hidden"}, <<"c">>, <<>>, <<"x">>,
             <<>>, FALSE, FALSE, TRUE),
       \* 6: OnlyShowIn=K
       Entry({"Name", "Exec", "OnlyShowIn"}, <<"c">>, <<>>, <<"x">>,
             <<"K">>, FALSE, FALSE, FALSE),
       \* 7: OnlyShowIn=g;k;
       Entry({"Name", "Exec", "OnlyShowIn"}, <<"A", "b">>, <<>>, <<"x">>,
             <<"g", ";", "k", ";">>, FALSE, FALSE, FALSE),
       \* 8: OnlyShowIn=g
       Entry({"Name", "Exec", "OnlyShowIn"}, <<"A", "b">>, <<>>, <<"x">>,
             <<"g">>, FALSE, FALSE, FALSE),
       \* 9: OnlyShowIn=UNKNOWN;
       Entry({"Name", "Exec", "OnlyShowIn"}, <<"c">>, <<>>, <<"x">>,
             <<"U", "N", "K", "N", "O", "W", "N", ";">>, FALSE, FALSE, FALSE),
       \* 10: OnlyShowIn=Unknown
       Entry({"Name", "Exec", "OnlyShowIn"}, <<"c">>, <<>>, <<"x">>,
             <<"U", "n", "k", "n", "o", "w", "n">>, FALSE, FALSE, FALSE) >>

\* The characters Exec values are made of here: a letter, a space, the
\* field-code sign and the double quote.
ExecChars == <<"x", " ", "%", "\"">>

\* The n-th string over ExecChars, shortest first (n = 0: the empty string).
RECURSIVE execString(_)
execString(n) ==
    IF n = 0 THEN <<>>
    ELSE <<ExecChars[((n - 1) % Len(ExecChars)) + 1]>>
             \o execString((n - 1) \div Len(ExecChars))

\* The numbers of the strings of at most MaxExecLen characters.
RECURSIVE execCount(_)
execCount(len) == IF len = 0 THEN 1 ELSE 1 + Len(ExecChars) * execCount(len - 1)

ExecCodes == 0..(execCount(MaxExecLen) - 1)

\* An entry without an Exec key, and the entry whose Exec is the n-th string.
NoExecEntry == Entry({"Name"}, <<"A", "b">>, <<>>, <<>>, <<>>, FALSE, FALSE, FALSE)

ExecEntry(n) ==
    Entry({"Name", "Exec"}, <<"A", "b">>, <<>>, execString(n), <<>>, FALSE, FALSE, FALSE)

\* What a path can hold, by number: 0 for no file, then the entries of
\* Catalogue, then NoExecEntry, then the entries ExecEntry(n).
EntryFile(k) ==
    IF k = 0 THEN NoEntry
    ELSE IF k <= Len(Catalogue) THEN Catalogue[k]
    ELSE IF k = Len(Catalogue) + 1 THEN NoExecEntry
    ELSE ExecEntry(k - Len(Catalogue) - 2)

ExecFiles == {Len(Catalogue) + 1} \cup {Len(Catalogue) + 2 + n : n \in ExecCodes}

\* The entry a package installs at a path (an index into Catalogue).
Installs(p) == IF p = <<"/", "a">> THEN 1 ELSE 2

\* DesktopProperties desktop(fileName, "Desktop Entry")
DesktopProperties(fileName) == EntryFile(disk[fileName])

\* desktop.contains(key)
contains(desktop, key) == key \in desktop.has

\* desktop.value(key)
value(desktop, key) == desktop[key]

----------------------------------------------------------------------------
(* LauncherItem objects and the two lists *)

\* The fields of a LauncherItem; entry is the catalogue index addApp loaded
\* the item from (0: the file could not be read).
Item(id, name, genericName, comment, iconName, args, entry) ==
    [id |-> id, name |-> name, genericName |-> genericName, comment |-> comment,
     iconName |-> iconName, args |-> args, entry |-> entry]

\* The content of a heap cell that holds no LauncherItem.
NoItem == Item(<<>>, <<>>, <<>>, <<>>, <<>>, <<>>, 0)

\* static QByteArray detectDesktopEnvironment()
detectDesktopEnvironment ==
    LET desktop == env IN
    IF desktop # <<>> THEN toUpper(desktop) ELSE <<"U", "N", "K", "N", "O", "W", "N">>

\* QStringList::contains(str), Qt::CaseSensitive by default
listContains(items, str) == \E i \in 1..Len(items) : items[i] = str

\* findById comparing the item's name, not its id, with the argument.
findById_byName(id) ==
    IF \E i \in 1..Len(m_items) : heap[m_items[i]].name = id
    THEN (CHOOSE i \in 1..Len(m_items) :
             /\ heap[m_items[i]].name = id
             /\ \A j \in 1..(i - 1) : heap[m_items[j]].name # id) - 1
    ELSE -1

\* int LauncherModel::findById(const QString &id)
findById(id) ==
    IF \E i \in 1..Len(m_items) : heap[m_items[i]].id = id
    THEN (CHOOSE i \in 1..Len(m_items) :
             /\ heap[m_items[i]].id = id
             /\ \A j \in 1..(i - 1) : heap[m_items[j]].id # id) - 1
    ELSE -1

\* indexOf answering 0 where it should answer -1.
indexOf_neverNegative(item) ==
    IF \E i \in 1..Len(m_items) : m_items[i] = item
    THEN (CHOOSE i \in 1..Len(m_items) :
             /\ m_items[i] = item
             /\ \A j \in 1..(i - 1) : m_items[j] # item) - 1
    ELSE 0

\* QList::indexOf(item)
indexOf(item) ==
    IF \E i \in 1..Len(m_items) : m_items[i] = item
    THEN (CHOOSE i \in 1..Len(m_items) :
             /\ m_items[i] = item
             /\ \A j \in 1..(i - 1) : m_items[j] # item) - 1
    ELSE -1

\* QList::removeAt(index), index counted from 0
removeAt(list, index) ==
    SubSeq(list, 1, index) \o SubSeq(list, index + 2, Len(list))

\* rowCount with the test of the mode inverted.
rowCount_inverted == IF m_mode = "SearchMode" THEN Len(m_items) ELSE Len(m_searchItems)

\* int LauncherModel::rowCount(const QModelIndex &parent) const
rowCount == IF m_mode = "SearchMode" THEN Len(m_searchItems) ELSE Len(m_items)

\* The item LauncherModel::data reads for a row counted from 0.
dataItem(row) ==
    IF m_mode = "NormalMode" THEN m_items[row + 1] ELSE m_searchItems[row + 1]

\* The rows the model exposes: the item behind each row 0 .. rowCount - 1.
Rows == [r \in 1..rowCount |-> dataItem(r - 1)]

----------------------------------------------------------------------------
(* Steps: bookkeeping shared by all actions *)

Op(thread, op, str, num, res) ==
    [thread |-> thread, op |-> op, str |-> str, num |-> num, res |-> res]

Ev(what, arg) == [what |-> what, arg |-> arg]

AddAppEvent(fileName) == [type |-> "addApp", fileName |-> fileName, item |-> 0]
RemoveAppEvent(item) == [type |-> "removeApp", fileName |-> <<>>, item |-> item]
RefreshedEvent == [type |-> "refreshed", fileName |-> <<>>, item |-> 0]
DeferredDeleteEvent(item) == [type |-> "deferredDelete", fileName |-> <<>>, item |-> item]

IdleWorker == [pc |-> "idle", addedEntries |-> {}, allEntries |-> {}, rem |-> <<>>]

\* LauncherModel::LauncherModel: empty lists, normal mode, one refresh task
\* handed to the thread pool; the directory and the environment are whatever
\* they are at that moment.
Constructed ==
    /\ m_items = <<>>
    /\ m_searchItems = <<>>
    /\ m_mode = "NormalMode"
    /\ heap = [a \in Addr |-> NoItem]
    /\ allocated = {}
    /\ queue = <<>>
    /\ pool = 1
    /\ worker = [t \in Workers |-> IdleWorker]
    /\ lastOp = Op("owner", "LauncherModel", <<>>, 0, "")
    /\ emitted = <<>>

\* Any entry file at any path, any environment.
InitFilter ==
    /\ env \in Envs
    /\ disk \in [Paths -> 0..Len(Catalogue)]
    /\ changes = 0
    /\ Constructed

\* One entry file, with any Exec value or none, in an unchanging directory.
InitLaunch ==
    /\ env = <<>>
    /\ disk \in {[p \in Paths |-> IF p = <<"/", "a">> THEN k ELSE 0] : k \in ExecFiles}
    /\ changes = 0
    /\ Constructed

\* As Init, with one more file-system change to come.
InitOverlap ==
    /\ env = <<>>
    /\ disk \in [Paths -> 0..Len(Catalogue)]
    /\ \A p \in Paths : disk[p] \in {0, Installs(p)}
    /\ changes = MaxChanges + 1
    /\ Constructed

\* Three packages are installed.
InitMove ==
    /\ env = <<>>
    /\ disk = [p \in Paths \cup {<<"/", "c">>} |-> Installs(p)]
    /\ changes = 0
    /\ Constructed

\* Each path holds the entry its package installs, shown or with
\* NoDisplay=true, or no file.
InitSerial ==
    /\ env = <<>>
    /\ disk \in [Paths -> 0..Len(Catalogue)]
    /\ \A p \in Paths :
          disk[p] \in {0, Installs(p)} \cup {k \in 1..Len(Catalogue) : Catalogue[k].NoDisplay}
    /\ changes = MaxChanges
    /\ Constructed

\* Each path holds the entry its package installs, or no file.
Init ==
    /\ env = <<>>
    /\ disk \in [Paths -> 0..Len(Catalogue)]
    /\ \A p \in Paths : disk[p] \in {0, Installs(p)}
    /\ changes = MaxChanges
    /\ Constructed

----------------------------------------------------------------------------
(* The file system *)

\* A package is installed or removed: the file at p appears or disappears, and
\* the QFileSystemWatcher's directoryChanged handler hands a new refresh task
\* to the thread pool (lines 55-57).
FsChange(p) ==
    /\ changes > 0
    /\ disk' = [disk EXCEPT ![p] = IF disk[p] = 0 THEN Installs(p) ELSE 0]
    /\ pool' = pool + 1
    /\ changes' = changes - 1
    /\ lastOp' = Op("fs", "directoryChanged", <<>>, 0, "")
    /\ emitted' = <<>>
    /\ UNCHANGED <<env, m_items, m_searchItems, m_mode, heap, allocated, queue, worker>>

\* No scan is waiting or running and no request of a scan is queued.
Quiescent ==
    /\ pool = 0
    /\ \A t \in Workers : worker[t].pc = "idle"
    /\ \A i \in 1..Len(queue) : queue[i].type = "deferredDelete"

\* What an upgrade of the package writes at p: its entry with NoDisplay=true
\* where the entry was shown, the shown entry otherwise.
Upgraded(p) ==
    IF disk[p] = Installs(p)
    THEN CHOOSE k \in 1..Len(Catalogue) : Catalogue[k].NoDisplay
    ELSE Installs(p)

\* A package is installed or removed while nothing is going on.
FsChangeIdle(p) ==
    /\ Quiescent
    /\ FsChange(p)

\* A package is upgraded while nothing is going on: the file at p is replaced
\* by one with other contents, and the directoryChanged handler hands a new
\* refresh task to the thread pool (lines 55-57).
FsRewriteIdle(p) ==
    /\ Quiescent
    /\ changes > 0
    /\ disk[p] # 0
    /\ disk' = [disk EXCEPT ![p] = Upgraded(p)]
    /\ pool' = pool + 1
    /\ changes' = changes - 1
    /\ lastOp' = Op("fs", "directoryChanged", <<>>, 0, "")
    /\ emitted' = <<>>
    /\ UNCHANGED <<env, m_items, m_searchItems, m_mode, heap, allocated, queue, worker>>

----------------------------------------------------------------------------
(* LauncherModel::refresh, on a pool thread *)

\* All orders in which a directory iteration can deliver the files of S.
Orders(S) == {q \in [1..Cardinality(S) -> S] : Range(q) = S}

\* Posting an event to the owning thread (QMetaObject::invokeMethod from
\* another thread: a queued call).
Post(ev) == Append(queue, ev)

WorkerStep ==
    /\ lastOp' = Op("worker", "refresh", <<>>, 0, "")
    /\ emitted' = <<>>

\* A pool thread takes a task and runs lines 194-196: the ids of the items
\* in the store at that moment.
RefreshStart(t) ==
    /\ pool > 0
    /\ worker[t].pc = "idle"
    /\ \A u \in Workers : u < t => worker[u].pc # "idle"
    /\ pool' = pool - 1
    /\ worker' = [worker EXCEPT ![t] =
           [IdleWorker EXCEPT !.pc = "list",
                              !.addedEntries = {heap[a].id : a \in Range(m_items)}]]
    /\ WorkerStep
    /\ UNCHANGED <<env, disk, m_items, m_searchItems, m_mode, heap, allocated, queue,
                   changes>>

\* Lines 198-212: the entry files that exist, in the order the iterator
\* delivers them, and one invokeMethod(manager, "addApp", fileName) for each
\* that line 210 lets through.
RefreshList(t) ==
    /\ worker[t].pc = "list"
    /\ \E allEntries \in Orders({p \in DOMAIN disk : disk[p] # 0}) :
          LET adds == SelectSeq(allEntries, LAMBDA f : f \notin worker[t].addedEntries)
          IN /\ Len(queue) + Len(adds) <= MaxQueue
             /\ queue' = queue \o [i \in 1..Len(adds) |-> AddAppEvent(adds[i])]
             /\ worker' = [worker EXCEPT ![t].pc = "snapshot",
                                      ![t].allEntries = Range(allEntries)]
    /\ WorkerStep
    /\ UNCHANGED <<env, disk, m_items, m_searchItems, m_mode, heap, allocated, pool,
                   changes>>

\* Line 220 invoking the refreshed handler on the pool thread itself instead
\* of posting it.
RefreshSnapshot_direct(t) ==
    /\ worker[t].pc = "snapshot"
    /\ IF m_items = <<>>
       THEN worker' = [worker EXCEPT ![t] = IdleWorker]
       ELSE worker' = [worker EXCEPT ![t].pc = "remove", ![t].rem = m_items]
    /\ m_items' = [i \in 1..Len(m_items) |-> m_items[Len(m_items) + 1 - i]]
    /\ lastOp' = Op("worker", "refresh", <<>>, 0, "")
    /\ emitted' = <<>>
    /\ UNCHANGED <<env, disk, m_searchItems, m_mode, heap, allocated, queue, pool,
                   changes>>

\* Line 214: the range-for fixes begin() and end() of the store as it is now.
\* With nothing to iterate the task goes on to line 220:
\* invokeMethod(manager, "refreshed").
RefreshSnapshot(t) ==
    /\ worker[t].pc = "snapshot"
    /\ IF m_items = <<>>
       THEN /\ Len(queue) < MaxQueue
            /\ queue' = Post(RefreshedEvent)
            /\ worker' = [worker EXCEPT ![t] = IdleWorker]
       ELSE /\ queue' = queue
            /\ worker' = [worker EXCEPT ![t].pc = "remove", ![t].rem = m_items]
    /\ WorkerStep
    /\ UNCHANGED <<env, disk, m_items, m_searchItems, m_mode, heap, allocated, pool,
                   changes>>

\* What reading item->id yields on the pool thread: the id of the object at
\* that address, or anything at all when the object has been destroyed.
ReadId(item) == IF item \in allocated THEN {heap[item].id} ELSE Paths \cup {<<>>}

\* The loop requesting the removal of the items whose file exists.
RefreshRemove_inverted(t) ==
    /\ worker[t].pc = "remove"
    /\ LET item == Head(worker[t].rem)
           last == Len(worker[t].rem) = 1
       IN \E id \in ReadId(item) :
          LET posts == (IF id \in worker[t].allEntries
                        THEN <<RemoveAppEvent(item)>> ELSE <<>>)
                       \o (IF last THEN <<RefreshedEvent>> ELSE <<>>)
          IN /\ Len(queue) + Len(posts) <= MaxQueue
             /\ queue' = queue \o posts
             /\ worker' = [worker EXCEPT ![t] =
                    IF last THEN IdleWorker
                    ELSE [worker[t] EXCEPT !.rem = Tail(worker[t].rem)]]
    /\ WorkerStep
    /\ UNCHANGED <<env, disk, m_items, m_searchItems, m_mode, heap, allocated, pool,
                   changes>>

\* Lines 215-216: one iteration of the loop over the store; after the last
\* one, line 220: invokeMethod(manager, "refreshed").
RefreshRemove(t) ==
    /\ worker[t].pc = "remove"
    /\ LET item == Head(worker[t].rem)
           last == Len(worker[t].rem) = 1
       IN \E id \in ReadId(item) :
          LET posts == (IF id \notin worker[t].allEntries
                        THEN <<RemoveAppEvent(item)>> ELSE <<>>)
                       \o (IF last THEN <<RefreshedEvent>> ELSE <<>>)
          IN /\ Len(queue) + Len(posts) <= MaxQueue
             /\ queue' = queue \o posts
             /\ worker' = [worker EXCEPT ![t] =
                    IF last THEN IdleWorker
                    ELSE [worker[t] EXCEPT !.rem = Tail(worker[t].rem)]]
    /\ WorkerStep
    /\ UNCHANGED <<env, disk, m_items, m_searchItems, m_mode, heap, allocated, pool,
                   changes>>

----------------------------------------------------------------------------
(* The owning thread: posted events *)

\* Line 285: desktop.contains("Terminal") && desktop.value("Terminal").toBool()
isTerminal(desktop) == contains(desktop, "Terminal") /\ value(desktop, "Terminal")

\* The OnlyShowIn test rejecting only an empty list.
notShownHere_emptyList(desktop) ==
    /\ contains(desktop, "OnlyShowIn")
    /\ LET items == split(value(desktop, "OnlyShowIn"), ";")
       IN Len(items) = 0

\* Lines 288-293: the entry names desktops and none is the current one.
notShownHere(desktop) ==
    /\ contains(desktop, "OnlyShowIn")
    /\ LET items == split(value(desktop, "OnlyShowIn"), ";")
       IN ~listContains(items, detectDesktopEnvironment)

\* The visibility test forgetting Hidden.
isHidden_noDisplayOnly(desktop) == value(desktop, "NoDisplay")

\* Lines 295-296: NoDisplay or Hidden.
isHidden(desktop) == value(desktop, "NoDisplay") \/ value(desktop, "Hidden")

\* Lines 280-297: why addApp returns early, "" when it does not.
rejection(fileName, desktop) ==
    IF findById(fileName) # -1 THEN "duplicate"
    ELSE IF isTerminal(desktop) THEN "Terminal"
    ELSE IF notShownHere(desktop) THEN "OnlyShowIn"
    ELSE IF isHidden(desktop) THEN "NoDisplay"
    ELSE ""

\* Lines 300, 305-309, 317: the launch arguments made from Exec.
execArgs(appExec) ==
    split(simplified(removeQuotes(removeLeadingQuote(removeFieldCodes(appExec)))), " ")

\* Lines 299-317: the LauncherItem built from an accepted entry.
newItem(fileName, desktop, entry) ==
    LET localName == value(desktop, "NameLocale")
        appName == IF localName = <<>> THEN value(desktop, "Name") ELSE localName
    IN Item(fileName, appName, value(desktop, "Comment"), value(desktop, "Comment"),
            value(desktop, "Icon"), execArgs(value(desktop, "Exec")), entry)

\* Addresses some pointer still holds although no object lives there.
staleRefs ==
    (Range(m_searchItems)
        \cup UNION {Range(worker[t].rem) : t \in Workers}
        \cup {queue[i].item : i \in 1..Len(queue)}) \ (allocated \cup {0})

\* Where new LauncherItem may place the object: any free cell.  Free cells
\* that no pointer holds are interchangeable, so one of them stands for all.
newAddresses ==
    LET free == Addr \ allocated
        fresh == free \ staleRefs
    IN (free \cap staleRefs)
          \cup (IF fresh = {} THEN {} ELSE {CHOOSE a \in fresh : \A b \in fresh : a <= b})

\* void LauncherModel::addApp(const QString &fileName), run from the queue.
addApp(fileName) ==
    LET desktop == DesktopProperties(fileName)
        why == rejection(fileName, desktop)
    IN /\ queue' = Tail(queue)
       /\ IF why # ""
          THEN /\ lastOp' = Op("owner", "addApp", fileName, 0, why)
               /\ emitted' = <<>>
               /\ UNCHANGED <<m_items, heap, allocated>>
          ELSE \E item \in newAddresses :
               /\ heap' = [heap EXCEPT ![item] = newItem(fileName, desktop, disk[fileName])]
               /\ allocated' = allocated \cup {item}
               /\ m_items' = Append(m_items, item)
               /\ lastOp' = Op("owner", "addApp", fileName, item, "added")
               /\ emitted' = <<Ev("beginInsertRows", Len(m_items)),
                               Ev("m_items.append", item),
                               Ev("endInsertRows", Len(m_items))>>
       /\ UNCHANGED <<env, disk, m_searchItems, m_mode, pool, worker, changes>>

\* removeApp announcing the removal before the rows are taken out.
removeApp_announceFirst(item) ==
    LET index == indexOf(item) IN
    /\ IF index < 0
       THEN /\ queue' = Tail(queue)
            /\ lastOp' = Op("owner", "removeApp", <<>>, item, "absent")
            /\ emitted' = <<>>
            /\ UNCHANGED m_items
       ELSE /\ m_items' = removeAt(m_items, index)
            /\ queue' = Append(Tail(queue), DeferredDeleteEvent(item))
            /\ lastOp' = Op("owner", "removeApp", <<>>, item, "removed")
            /\ emitted' = <<Ev("applicationRemoved", item),
                            Ev("beginRemoveRows", index),
                            Ev("m_items.removeAt", index),
                            Ev("endRemoveRows", index),
                            Ev("deleteLater", item)>>
    /\ UNCHANGED <<env, disk, m_searchItems, m_mode, heap, allocated, pool, worker,
                   changes>>

\* void LauncherModel::removeApp(LauncherItem *item), run from the queue;
\* deleteLater posts the deletion behind the events already queued.
removeApp(item) ==
    LET index == indexOf(item) IN
    /\ IF index < 0
       THEN /\ queue' = Tail(queue)
            /\ lastOp' = Op("owner", "removeApp", <<>>, item, "absent")
            /\ emitted' = <<>>
            /\ UNCHANGED m_items
       ELSE /\ m_items' = removeAt(m_items, index)
            /\ queue' = Append(Tail(queue), DeferredDeleteEvent(item))
            /\ lastOp' = Op("owner", "removeApp", <<>>, item, "removed")
            /\ emitted' = <<Ev("beginRemoveRows", index),
                            Ev("m_items.removeAt", index),
                            Ev("endRemoveRows", index),
                            Ev("applicationRemoved", item),
                            Ev("deleteLater", item)>>
    /\ UNCHANGED <<env, disk, m_searchItems, m_mode, heap, allocated, pool, worker,
                   changes>>

\* The deferred deletion of a LauncherItem.
deferredDelete(item) ==
    /\ queue' = Tail(queue)
    /\ allocated' = allocated \ {item}
    /\ heap' = [heap EXCEPT ![item] = NoItem]
    /\ lastOp' = Op("owner", "deferredDelete", <<>>, item, "")
    /\ emitted' = <<Ev("delete", item)>>
    /\ UNCHANGED <<env, disk, m_items, m_searchItems, m_mode, pool, worker, changes>>

\* The comparison with its operands exchanged.
nameLess_exchanged(a, b) == StrLess(heap[b].name, heap[a].name)

\* The comparison of lines 66-68.
nameLess(a, b) == StrLess(heap[a].name, heap[b].name)

\* What std::sort may leave: any arrangement of the same items in which no
\* item precedes one that compares less than it.
sortResults(list) ==
    {q \in [1..Len(list) -> Range(list)] :
        /\ \A a \in Range(list) :
              Cardinality({i \in 1..Len(list) : q[i] = a})
                  = Cardinality({i \in 1..Len(list) : list[i] = a})
        /\ \A i, j \in 1..Len(list) : i < j => ~nameLess(q[j], q[i])}

\* The handler of the refreshed signal (lines 64-70).
refreshed ==
    /\ queue' = Tail(queue)
    /\ \E sorted \in sortResults(m_items) : m_items' = sorted
    /\ lastOp' = Op("owner", "refreshed", <<>>, 0, "")
    /\ emitted' = <<Ev("beginResetModel", 0), Ev("m_items.sort", 0),
                    Ev("endResetModel", 0)>>
    /\ UNCHANGED <<env, disk, m_searchItems, m_mode, heap, allocated, pool, worker,
                   changes>>

DeliverAddApp ==
    /\ queue # <<>>
    /\ Head(queue).type = "addApp"
    /\ addApp(Head(queue).fileName)

DeliverRemoveApp ==
    /\ queue # <<>>
    /\ Head(queue).type = "removeApp"
    /\ removeApp(Head(queue).item)

DeliverRefreshed ==
    /\ queue # <<>>
    /\ Head(queue).type = "refreshed"
    /\ refreshed

DeliverDeferredDelete ==
    /\ queue # <<>>
    /\ Head(queue).type = "deferredDelete"
    /\ deferredDelete(Head(queue).item)

----------------------------------------------------------------------------
(* The owning thread: calls from the view *)

\* Search keys the view passes.
Keys == {<<>>, <<"A", "B">>, <<"/", "b">>}

\* The test of search comparing case-sensitively.
matches_caseSensitive(item, key) ==
    LET name == heap[item].name
        fileName == heap[item].id
    IN containsCS(name, key) \/ containsCS(fileName, key)

\* Lines 141-145: the test applied to each item.
matches(item, key) ==
    LET name == heap[item].name
        fileName == heap[item].id
    IN containsCI(name, key) \/ containsCI(fileName, key)

\* void LauncherModel::search(const QString &key)
search(key) ==
    /\ m_mode' = IF key = <<>> THEN "NormalMode" ELSE "SearchMode"
    /\ m_searchItems' = SelectSeq(m_items, LAMBDA item : matches(item, key))
    /\ lastOp' = Op("owner", "search", key, 0, "")
    /\ emitted' = <<Ev("layoutChanged", 0)>>
    /\ UNCHANGED <<env, disk, m_items, heap, allocated, queue, pool, worker, changes>>

\* QList::move exchanging the two positions.
listMove_swap(list, from, to) ==
    [i \in 1..Len(list) |->
        IF i = from + 1 THEN list[to + 1]
        ELSE IF i = to + 1 THEN list[from + 1]
        ELSE list[i]]

\* QList::move(from, to), positions counted from 0
listMove(list, from, to) ==
    LET item == list[from + 1]
        rest == removeAt(list, from)
    IN SubSeq(rest, 1, to) \o <<item>> \o SubSeq(rest, to + 1, Len(rest))

\* The values the view passes to move.
MoveArgs == (0..1) \X (0..1) \X (0..1) \X {1}

\* The values the view passes to move for a store of up to three rows shown
\* on pages of one row.
MoveArgsPaged == (0..2) \X (0..2) \X (0..1) \X {1}

\* void LauncherModel::move(int from, int to, int page, int pageCount);
\* QList::move requires both positions to be in the list.
move(from, to, page, pageCount) ==
    LET newFrom == from + (page * pageCount)
        newTo == to + (page * pageCount)
    IN /\ from # to => /\ newFrom \in 0..(Len(m_items) - 1)
                       /\ newTo \in 0..(Len(m_items) - 1)
       /\ m_items' = IF from = to THEN m_items ELSE listMove(m_items, newFrom, newTo)
       /\ lastOp' = Op("owner", "move", <<>>, <<from, to, page, pageCount>>, "")
       /\ emitted' = IF from = to THEN <<>> ELSE <<Ev("m_items.move", newFrom)>>
       /\ UNCHANGED <<env, disk, m_searchItems, m_mode, heap, allocated, queue, pool,
                      worker, changes>>

\* The literal of line 266.
screenshotTool ==
    <<"c", "u", "t", "e", "f", "i", "s", "h", "-",
      "s", "c", "r", "e", "e", "n", "s", "h", "o", "t">>

\* Lines 260-261: QString cmd = args.takeFirst(); p->setProgram(cmd)
launchProgram(args) == Head(args)

\* Lines 262-268: the arguments given to the process.
launchArguments(args) ==
    IF launchProgram(args) = screenshotTool
    THEN <<(<<"-", "d">>), (<<"2", "0", "0">>)>>
    ELSE Tail(args)

\* launch emitting the notification only once the process has started.
launch_notifyOnSuccess(path) ==
    LET index == findById(path) IN
    /\ IF index # -1
       THEN \E started \in BOOLEAN :
               /\ lastOp' = Op("owner", "launch", path, m_items[index + 1],
                               IF started THEN "true" ELSE "false")
               /\ emitted' = <<Ev("startDetached", m_items[index + 1])>>
                               \o (IF started THEN <<Ev("applicationLaunched", 0)>>
                                   ELSE <<>>)
       ELSE /\ lastOp' = Op("owner", "launch", path, 0, "false")
            /\ emitted' = <<>>
    /\ UNCHANGED <<env, disk, m_items, m_searchItems, m_mode, heap, allocated, queue,
                   pool, worker, changes>>

\* bool LauncherModel::launch(const QString &path).  takeFirst on an empty
\* list is undefined: anything may have been emitted and returned.
\* startDetached succeeds or fails.
launch(path) ==
    LET index == findById(path) IN
    /\ IF index # -1
       THEN LET item == m_items[index + 1]
                args == heap[item].args
            IN IF args = <<>>
               THEN /\ lastOp' \in {Op("owner", "launch", path, item, res) :
                                       res \in {"true", "false", "undefined"}}
                    /\ emitted' \in {<<>>, <<Ev("applicationLaunched", 0)>>}
               ELSE \E started \in BOOLEAN :
                    /\ lastOp' = Op("owner", "launch", path, item,
                                    IF started THEN "true" ELSE "false")
                    /\ emitted' = <<Ev("applicationLaunched", 0),
                                    Ev("startDetached", item)>>
       ELSE /\ lastOp' = Op("owner", "launch", path, 0, "false")
            /\ emitted' = <<>>
    /\ UNCHANGED <<env, disk, m_items, m_searchItems, m_mode, heap, allocated, queue,
                   pool, worker, changes>>

----------------------------------------------------------------------------

Next ==
    \/ \E p \in Paths : FsChange(p)
    \/ \E t \in Workers : RefreshStart(t)
    \/ \E t \in Workers : RefreshList(t)
    \/ \E t \in Workers : RefreshSnapshot(t)
    \/ \E t \in Workers : RefreshRemove(t)
    \/ DeliverAddApp
    \/ DeliverRemoveApp
    \/ DeliverRefreshed
    \/ DeliverDeferredDelete
    \/ \E key \in Keys : search(key)
    \/ \E a \in MoveArgs : move(a[1], a[2], a[3], a[4])

Spec == Init /\ [][Next]_vars

\* One scan of an unchanging directory, nothing else going on.
NextFilter ==
    \/ \E t \in Workers : RefreshStart(t)
    \/ \E t \in Workers : RefreshList(t)
    \/ \E t \in Workers : RefreshSnapshot(t)
    \/ \E t \in Workers : RefreshRemove(t)
    \/ DeliverAddApp
    \/ DeliverRefreshed

SpecFilter == InitFilter /\ [][NextFilter]_vars

\* The scans and the owning thread's queue, with no call from the view.
NextScan ==
    \/ \E p \in Paths : FsChange(p)
    \/ \E t \in Workers : RefreshStart(t)
    \/ \E t \in Workers : RefreshList(t)
    \/ \E t \in Workers : RefreshSnapshot(t)
    \/ \E t \in Workers : RefreshRemove(t)
    \/ DeliverAddApp
    \/ DeliverRemoveApp
    \/ DeliverRefreshed
    \/ DeliverDeferredDelete

SpecScan == Init /\ [][NextScan]_vars

SpecOverlap == InitOverlap /\ [][NextScan]_vars

\* Scans one after the other: the directory changes only while no scan is
\* under way and no request of a scan is pending.
NextSerial ==
    \/ \E p \in Paths : FsChangeIdle(p)
    \/ \E p \in Paths : FsRewriteIdle(p)
    \/ \E t \in Workers : RefreshStart(t)
    \/ \E t \in Workers : RefreshList(t)
    \/ \E t \in Workers : RefreshSnapshot(t)
    \/ \E t \in Workers : RefreshRemove(t)
    \/ DeliverAddApp
    \/ DeliverRemoveApp
    \/ DeliverRefreshed
    \/ DeliverDeferredDelete

SpecSerial == InitSerial /\ [][NextSerial]_vars

\* One scan of an unchanging directory, and search and move called at any
\* moment.
NextMove ==
    \/ \E t \in Workers : RefreshStart(t)
    \/ \E t \in Workers : RefreshList(t)
    \/ \E t \in Workers : RefreshSnapshot(t)
    \/ \E t \in Workers : RefreshRemove(t)
    \/ DeliverAddApp
    \/ DeliverRefreshed
    \/ \E key \in Keys : search(key)
    \/ \E a \in MoveArgsPaged : move(a[1], a[2], a[3], a[4])

SpecMove == InitMove /\ [][NextMove]_vars

\* One scan of an unchanging directory, and launch called at any moment.
NextLaunch ==
    \/ \E t \in Workers : RefreshStart(t)
    \/ \E t \in Workers : RefreshList(t)
    \/ \E t \in Workers : RefreshSnapshot(t)
    \/ \E t \in Workers : RefreshRemove(t)
    \/ DeliverAddApp
    \/ DeliverRefreshed
    \/ \E path \in Paths : launch(path)

SpecLaunch == InitLaunch /\ [][NextLaunch]_vars

----------------------------------------------------------------------------
(* Properties *)

Store == Range(m_items)

\* The entry an item was loaded from.
entryOf(item) == EntryFile(heap[item].entry)

\* C1: in every reachable state no two items of the store have the same id.
UniqueIds ==
    \A i, j \in 1..Len(m_items) :
        i # j => heap[m_items[i]].id # heap[m_items[j]].id

\* A second request to add a path, made by an overlapping scan, has just
\* been turned down because the first one had put the item in the store.
UniqueIdsWitness ==
    /\ lastOp.op = "addApp"
    /\ lastOp.res = "duplicate"
    /\ \E i \in 1..Len(m_items) : heap[m_items[i]].id = lastOp.str

\* C2: in every reachable state every item the search overlay refers to is
\* an item of the store.
OverlayInStore == Range(m_searchItems) \subseteq Store

\* C3: after search with an empty key the model is in normal mode and the
\* search overlay holds no item reference.
OverlayDiscarded ==
    (lastOp.op = "search" /\ lastOp.str = <<>>)
        => (m_mode = "NormalMode" /\ m_searchItems = <<>>)

\* The store mutations a step performed.
storeMutations(trace) ==
    SelectSeq(trace, LAMBDA e :
        e.what \in {"m_items.append", "m_items.removeAt", "m_items.sort", "m_items.move"})

\* C4: the store is modified only by steps of the owning thread, one
\* mutation per step; a step of a scan worker leaves the store, the overlay,
\* the mode and the items alone and at most appends requests to the queue.
OwnerOnlyMutates ==
    [][ /\ m_items' # m_items =>
             /\ lastOp'.thread = "owner"
             /\ Len(storeMutations(emitted')) = 1
        /\ lastOp'.thread = "worker" =>
             /\ UNCHANGED <<m_items, m_searchItems, m_mode, heap, allocated>>
             /\ \E k \in 0..Len(queue') :
                   /\ queue = SubSeq(queue', 1, Len(queue') - k)
                   /\ \A i \in (Len(queue) + 1)..Len(queue') :
                         queue'[i].type \in {"addApp", "removeApp", "refreshed"}
      ]_vars

\* The owning thread has just added an item while a scan is under way.
OwnerOnlyMutatesWitness ==
    /\ lastOp.op = "addApp"
    /\ lastOp.res = "added"
    /\ \E t \in Workers : worker[t].pc # "idle"

\* An entry with one of the three flags set.
flagged(desktop) ==
    \/ ("Terminal" \in desktop.has /\ desktop.Terminal)
    \/ ("Hidden" \in desktop.has /\ desktop.Hidden)
    \/ ("NoDisplay" \in desktop.has /\ desktop.NoDisplay)

\* C5: the store never contains an item made from an entry whose Terminal,
\* Hidden or NoDisplay flag was true, and addApp of such an entry adds nothing.
NoFlaggedItem ==
    /\ \A item \in Store : ~flagged(entryOf(item))
    /\ (lastOp.op = "addApp" /\ flagged(DesktopProperties(lastOp.str)))
          => lastOp.res # "added"

\* addApp has just turned down a Hidden entry while the other path's entry
\* is in the store.
NoFlaggedItemWitness ==
    /\ lastOp.op = "addApp"
    /\ lastOp.res # "added"
    /\ "Hidden" \in DesktopProperties(lastOp.str).has
    /\ DesktopProperties(lastOp.str).Hidden
    /\ Len(m_items) = 1

\* The identifier of the current desktop environment, in no particular case.
currentDesktop == IF env = <<>> THEN <<"U", "N", "K", "N", "O", "W", "N">> ELSE env

\* Some ';'-separated element of an OnlyShowIn value is s, ignoring case.
namesIgnoringCase(onlyShowIn, s) ==
    \E i \in 0..Len(onlyShowIn) : \E j \in i..Len(onlyShowIn) :
        /\ i = 0 \/ onlyShowIn[i] = ";"
        /\ j = Len(onlyShowIn) \/ onlyShowIn[j + 1] = ";"
        /\ \A k \in (i + 1)..j : onlyShowIn[k] # ";"
        /\ foldCase(SubSeq(onlyShowIn, i + 1, j)) = foldCase(s)

\* C6: an entry with an OnlyShowIn field none of whose elements is the
\* current desktop-environment identifier (UNKNOWN when the variable is
\* empty), ignoring case, never becomes an item.
OnlyShownWhereNamed ==
    /\ \A item \in Store :
          "OnlyShowIn" \in entryOf(item).has
              => namesIgnoringCase(entryOf(item).OnlyShowIn, currentDesktop)
    /\ (/\ lastOp.op = "addApp"
        /\ "OnlyShowIn" \in DesktopProperties(lastOp.str).has
        /\ ~namesIgnoringCase(DesktopProperties(lastOp.str).OnlyShowIn, currentDesktop))
          => lastOp.res # "added"

\* addApp has just turned down an entry because of its OnlyShowIn field.
OnlyShownWhereNamedWitness ==
    /\ lastOp.op = "addApp"
    /\ lastOp.res = "OnlyShowIn"
    /\ ~namesIgnoringCase(DesktopProperties(lastOp.str).OnlyShowIn, currentDesktop)

\* C7: an entry whose OnlyShowIn list names the current desktop environment
\* in any letter case, with no flag set and no item of its id in the store,
\* is added.
OnlyShowInIgnoresCase ==
    (/\ lastOp.op = "addApp"
     /\ lastOp.res # "duplicate"
     /\ "OnlyShowIn" \in DesktopProperties(lastOp.str).has
     /\ namesIgnoringCase(DesktopProperties(lastOp.str).OnlyShowIn, currentDesktop)
     /\ ~flagged(DesktopProperties(lastOp.str)))
        => lastOp.res = "added"

\* s has key as a substring, ignoring case.
hasSubstring(s, key) ==
    \E i \in 1..(Len(s) + 1) : \E j \in (i - 1)..Len(s) :
        foldCase(SubSeq(s, i, j)) = foldCase(key)

\* C8: immediately after search with a non-empty key the rows exposed are
\* exactly the store items whose name or id contains the key ignoring case,
\* in store order, and the call has not changed the store.
SearchFilters ==
    [][ (lastOp'.op = "search" /\ lastOp'.str # <<>>) =>
            /\ m_items' = m_items
            /\ heap' = heap
            /\ Rows' = SelectSeq(m_items, LAMBDA item :
                           \/ hasSubstring(heap[item].name, lastOp'.str)
                           \/ hasSubstring(heap[item].id, lastOp'.str))
      ]_vars

\* A search has just kept one of two store items, matching only when case
\* is ignored.
SearchFiltersWitness ==
    /\ lastOp.op = "search"
    /\ lastOp.str = <<"A", "B">>
    /\ Len(m_items) = 2
    /\ rowCount = 1

\* C9: search with an empty key puts the model in normal mode; only search
\* changes the mode; and in normal mode the rows exposed are the items of
\* the store in the store's order, whatever addApp and removeApp do to it.
EmptyKeyShowsStore ==
    [][ /\ (lastOp'.op = "search" /\ lastOp'.str = <<>>) => m_mode' = "NormalMode"
        /\ lastOp'.op # "search" => m_mode' = m_mode
        /\ m_mode' = "NormalMode" => Rows' = m_items'
      ]_vars

\* In normal mode after an earlier search with an empty key (the overlay
\* still lists what the store held then) an item has just been removed.
EmptyKeyShowsStoreWitness ==
    /\ m_mode = "NormalMode"
    /\ m_searchItems # <<>>
    /\ lastOp.op = "removeApp"
    /\ lastOp.res = "removed"
    /\ Rows = m_items

\* C10: removeApp of an item that is not in the store changes nothing: store,
\* overlay and mode stay, nothing is emitted, nothing is released or queued
\* for release.
RemoveAbsentNoOp ==
    [][ (lastOp'.op = "removeApp" /\ lastOp'.num \notin Range(m_items)) =>
            /\ UNCHANGED <<m_items, m_searchItems, m_mode, heap, allocated>>
            /\ emitted' = <<>>
            /\ queue' = Tail(queue)
      ]_vars

\* removeApp has just been run for an item that was not in the store, with
\* other items in it.
RemoveAbsentNoOpWitness ==
    /\ lastOp.op = "removeApp"
    /\ lastOp.num \notin Range(m_items)
    /\ emitted = <<>>
    /\ m_items # <<>>

\* s comes before t in code-unit order: s is a proper prefix of t, or at the
\* first position where they differ s has the smaller character.
nameBefore(s, t) ==
    \E k \in 1..Len(t) :
        /\ k <= Len(s) + 1
        /\ \A i \in 1..(k - 1) : s[i] = t[i]
        /\ k = Len(s) + 1 \/ CharCode(s[k]) < CharCode(t[k])

\* The requests a step appended to the queue.
posted == SubSeq(queue', Len(queue) + 1, Len(queue'))

\* C11: a scan posts refreshed exactly once, in the step that ends it and
\* behind every addApp and removeApp it posts; right after the owning thread
\* has handled refreshed the store is in non-decreasing order of name and
\* holds the same items as before, the items themselves untouched.
RefreshedSortsStore ==
    [][ /\ lastOp'.thread = "worker" =>
             LET ended == {t \in Workers : worker[t].pc # "idle" /\ worker'[t].pc = "idle"}
                 signals == {i \in 1..Len(posted) : posted[i].type = "refreshed"}
             IN /\ Len(queue') >= Len(queue)
                /\ Cardinality(signals) = Cardinality(ended)
                /\ signals \subseteq {Len(posted)}
                /\ \A t \in Workers :
                      (worker[t].pc = "idle" /\ worker'[t] # worker[t]) => posted = <<>>
        /\ lastOp'.op = "refreshed" =>
             /\ \A i, j \in 1..Len(m_items') :
                    i < j => ~nameBefore(heap'[m_items'[j]].name, heap'[m_items'[i]].name)
             /\ Len(m_items') = Len(m_items)
             /\ \A a \in Addr :
                    Cardinality({i \in 1..Len(m_items') : m_items'[i] = a})
                        = Cardinality({i \in 1..Len(m_items) : m_items[i] = a})
             /\ UNCHANGED <<heap, allocated, m_searchItems, m_mode>>
      ]_vars

\* The handler of refreshed has just put two items with different names in
\* ascending order, the one allocated later now first.
RefreshedSortsStoreWitness ==
    /\ lastOp.op = "refreshed"
    /\ Len(m_items) = 2
    /\ nameBefore(heap[m_items[1]].name, heap[m_items[2]].name)
    /\ m_items[1] > m_items[2]

\* C12: launch(path) emits the launched notification and then starts a
\* process exactly when an item with id path is in the store, whether or not
\* the start succeeds; otherwise it returns false and emits and starts
\* nothing; it never changes the store, the overlay, the mode or an item.
LaunchIffFound ==
    [][ lastOp'.op = "launch" =>
          LET found == \E a \in Store : heap[a].id = lastOp'.str
              what == [i \in 1..Len(emitted') |-> emitted'[i].what]
          IN /\ UNCHANGED <<m_items, m_searchItems, m_mode, heap, allocated, queue>>
             /\ found => /\ what = <<"applicationLaunched", "startDetached">>
                         /\ lastOp'.res \in {"true", "false"}
             /\ ~found => /\ what = <<>>
                          /\ lastOp'.res = "false"
      ]_vars

\* launch has just emitted the notification for an item of the store and
\* the process failed to start.
LaunchIffFoundWitness ==
    /\ lastOp.op = "launch"
    /\ lastOp.res = "false"
    /\ lastOp.num \in Store
    /\ heap[lastOp.num].id = lastOp.str
    /\ emitted # <<>>
    /\ emitted[1].what = "applicationLaunched"

\* Position i of s begins a placeholder: a '%' with a character after it
\* that is not itself the second character of a placeholder.
RECURSIVE beginsPlaceholder(_, _)
beginsPlaceholder(s, i) ==
    /\ s[i] = "%"
    /\ i < Len(s)
    /\ ~(i > 1 /\ beginsPlaceholder(s, i - 1))

\* The characters of s outside placeholders that are not quotes.
withoutCodesAndQuotes(s) ==
    LET keep == {i \in 1..Len(s) :
                    /\ ~beginsPlaceholder(s, i)
                    /\ ~(i > 1 /\ beginsPlaceholder(s, i - 1))
                    /\ s[i] # "\""}
        nth(n) == CHOOSE i \in keep : Cardinality({k \in keep : k < i}) = n - 1
    IN [n \in 1..Cardinality(keep) |-> s[nth(n)]]

\* The maximal runs of characters other than spaces in s, in order; the one
\* empty string when there is none.
words(s) ==
    LET starts == {i \in 1..Len(s) : s[i] # " " /\ (i = 1 \/ s[i - 1] = " ")}
        nth(n) == CHOOSE i \in starts : Cardinality({k \in starts : k < i}) = n - 1
        stop(i) == CHOOSE j \in i..Len(s) :
                       /\ \A k \in i..j : s[k] # " "
                       /\ j = Len(s) \/ s[j + 1] = " "
    IN IF starts = {} THEN << <<>> >>
       ELSE [n \in 1..Cardinality(starts) |-> SubSeq(s, nth(n), stop(nth(n)))]

\* C13: the launch arguments of every item are its entry's Exec command
\* without placeholders ('%' and the character after it) and without quotes,
\* split at whitespace: no argument holds a placeholder, a quote or a space,
\* and none is empty unless nothing is left of the command.
ArgsNormalised ==
    \A item \in Store :
        LET args == heap[item].args
            command == withoutCodesAndQuotes(entryOf(item).Exec)
        IN /\ args = words(command)
           /\ \A n \in 1..Len(args) :
                 /\ \A i \in 1..Len(args[n]) :
                       /\ args[n][i] \notin {"\"", " "}
                       /\ args[n][i] = "%" => i = Len(args[n])
                 /\ args[n] = <<>> =>
                       /\ Len(args) = 1
                       /\ \A i \in 1..Len(command) : command[i] = " "

\* The store holds the item of an entry whose Exec is a command followed by
\* a placeholder; its one argument is the command.
ArgsNormalisedWitness ==
    \E item \in Store :
        /\ entryOf(item).Exec = <<"x", " ", "%", "x">>
        /\ heap[item].args = << <<"x">> >>

\* The entry passes the filter of addApp.
shown(desktop) == ~isTerminal(desktop) /\ ~notShownHere(desktop) /\ ~isHidden(desktop)

\* The paths of the files on disk whose entry passes the filter.
shownPaths == {p \in DOMAIN disk : disk[p] # 0 /\ shown(EntryFile(disk[p]))}

\* The ids of the items of the store.
storeIds == {heap[item].id : item \in Store}

\* C14 as stated: once a scan that ran alone over an unchanging directory
\* is over and its requests are processed, the ids of the store are exactly
\* the paths of the files on disk that pass the filter.
ScanReconcilesExactly == Quiescent => storeIds = shownPaths

\* C14 as amended: once such a scan is over and its requests are processed,
\* every file on disk that passes the filter has an item and no item has the
\* path of a file that is not on disk.
ScanReconciles ==
    Quiescent =>
        /\ shownPaths \subseteq storeIds
        /\ \A id \in storeIds : id \in DOMAIN disk /\ disk[id] # 0

\* A scan that found one file gone and the other still there has ended: the
\* item of the first has been removed, the item of the second is kept.
ScanReconcilesWitness ==
    /\ Quiescent
    /\ lastOp.op = "refreshed"
    /\ queue # <<>>
    /\ Head(queue).item \notin Store
    /\ Cardinality(storeIds) = 1
    /\ storeIds = shownPaths

\* The kinds of the events of a trace, in order.
kinds(trace) == [i \in 1..Len(trace) |-> trace[i].what]

\* C15: a step that makes the store longer or shorter is an addApp or a
\* removeApp; the insertion lies between beginInsertRows and endInsertRows
\* carrying the previous size of the store, which is the row of the new item;
\* the removal lies between beginRemoveRows and endRemoveRows carrying the
\* row the item had, and is followed by applicationRemoved and then by the
\* release of that item.
BracketedMutations ==
    [][ /\ Len(m_items') > Len(m_items) =>
             /\ lastOp'.op = "addApp"
             /\ kinds(emitted') = <<"beginInsertRows", "m_items.append", "endInsertRows">>
             /\ emitted'[1].arg = Len(m_items)
             /\ emitted'[3].arg = Len(m_items)
             /\ SubSeq(m_items', 1, Len(m_items)) = m_items
             /\ m_items'[Len(m_items) + 1] = emitted'[2].arg
        /\ Len(m_items') < Len(m_items) =>
             /\ lastOp'.op = "removeApp"
             /\ kinds(emitted') = <<"beginRemoveRows", "m_items.removeAt", "endRemoveRows",
                                    "applicationRemoved", "deleteLater">>
             /\ LET row == emitted'[1].arg
                    item == emitted'[4].arg
                IN /\ row \in 0..(Len(m_items) - 1)
                   /\ m_items[row + 1] = item
                   /\ item = lastOp'.num
                   /\ emitted'[2].arg = row
                   /\ emitted'[3].arg = row
                   /\ emitted'[5].arg = item
                   /\ m_items' = [i \in 1..(Len(m_items) - 1) |->
                                     IF i <= row THEN m_items[i] ELSE m_items[i + 1]]
        /\ (lastOp'.op \in {"addApp", "removeApp"} /\ Len(m_items') = Len(m_items)) =>
             emitted' = <<>>
      ]_vars

\* removeApp has just taken the second of two items out of the store.
BracketedMutationsWitness ==
    /\ lastOp.op = "removeApp"
    /\ lastOp.res = "removed"
    /\ emitted[1].arg = 1
    /\ Len(m_items) = 1

\* C16: move(from, to, page, pageCount) with from # to and both positions
\* from + page*pageCount and to + page*pageCount in the store puts the item
\* of the first position at the second, keeps the other items in their
\* order and the set of items the same, notifies nobody and leaves overlay,
\* mode and items alone; with from = to it changes nothing, whatever page
\* and pageCount are.
MoveRelocates ==
    [][ lastOp'.op = "move" =>
          LET from == lastOp'.num[1]
              to == lastOp'.num[2]
              src == from + lastOp'.num[3] * lastOp'.num[4] + 1
              dst == to + lastOp'.num[3] * lastOp'.num[4] + 1
              others(list, a) == SelectSeq(list, LAMBDA b : b # a)
          IN /\ UNCHANGED <<m_searchItems, m_mode, heap, allocated, queue>>
             /\ \A i \in 1..Len(emitted') : emitted'[i].what = "m_items.move"
             /\ from = to => m_items' = m_items
             /\ (from # to /\ src \in 1..Len(m_items) /\ dst \in 1..Len(m_items)) =>
                   /\ m_items'[dst] = m_items[src]
                   /\ others(m_items', m_items[src]) = others(m_items, m_items[src])
                   /\ Len(m_items') = Len(m_items)
                   /\ Range(m_items') = Range(m_items)
      ]_vars

\* move(1, 0, 1, 1) has just taken the item of the third of three rows to
\* the second row, with a search overlay in place.
MoveRelocatesWitness ==
    /\ lastOp.op = "move"
    /\ lastOp.num = <<1, 0, 1, 1>>
    /\ Len(m_items) = 3
    /\ m_mode = "SearchMode"
    /\ m_searchItems # <<>>

\* C17: whenever every scan started so far has ended and all requests are
\* processed, the ids of the store are exactly the paths of the files on
\* disk that pass the filter, however the scans overlapped.
EventuallyConsistent == Quiescent => storeIds = shownPaths

\* The positions of the queue holding a removeApp request for item.
removalsPending(item) ==
    {i \in 1..Len(queue) : queue[i].type = "removeApp" /\ queue[i].item = item}

\* The positions of the queue holding the deferred deletion of item.
deletionsPending(item) ==
    {i \in 1..Len(queue) : queue[i].type = "deferredDelete" /\ queue[i].item = item}

\* C18: applicationRemoved is emitted for an item only in the step that
\* takes it out of the store, where it is alive and not yet released, and
\* that step releases it once; an item enters the store only as a new
\* object; and a removeApp request for an item that has left the store stays
\* a no-op: while it is pending nothing enters the store at that address.
RemovedOnce ==
    [][ /\ \A i \in 1..Len(emitted') :
              emitted'[i].what = "applicationRemoved" =>
                 LET item == emitted'[i].arg
                 IN /\ item \in Range(m_items)
                    /\ item \notin Range(m_items')
                    /\ item \in allocated
                    /\ deletionsPending(item) = {}
                    /\ Cardinality({k \in 1..Len(emitted') :
                           emitted'[k] = Ev("applicationRemoved", item)}) = 1
                    /\ Cardinality({k \in 1..Len(emitted') :
                           emitted'[k] = Ev("deleteLater", item)}) = 1
        /\ \A a \in Range(m_items') \ Range(m_items) : a \notin allocated
        /\ \A a \in Addr :
              (removalsPending(a) # {} /\ a \notin Range(m_items))
                  => a \notin Range(m_items')
      ]_vars

\* The number of events of a kind in a trace.
count(trace, what) == Cardinality({i \in 1..Len(trace) : trace[i].what = what})

\* C19: the row count a view keeps from the notifications of a step (one
\* more per insert bracket, one less per remove bracket, read again from
\* rowCount after a model reset or layoutChanged) is the model's rowCount
\* after the step, in either mode, and the row of an insert or remove bracket
\* is the row of that item in the list rowCount and data expose.
ViewTracksRows ==
    [][ /\ (count(emitted', "endResetModel") = 0 /\ count(emitted', "layoutChanged") = 0)
              => rowCount' = rowCount + count(emitted', "endInsertRows")
                                      - count(emitted', "endRemoveRows")
        /\ \A i \in 1..Len(emitted') :
              /\ emitted'[i].what = "endInsertRows" =>
                    /\ emitted'[i].arg < rowCount'
                    /\ Rows'[emitted'[i].arg + 1] = lastOp'.num
              /\ emitted'[i].what = "beginRemoveRows" =>
                    /\ emitted'[i].arg < rowCount
                    /\ Rows[emitted'[i].arg + 1] = lastOp'.num
      ]_vars

\* C20: every item of the store has at least one launch argument, so
\* that launch of an item found by id always has a first argument to take.
ArgsNeverEmpty ==
    /\ \A item \in Store :
          /\ Len(heap[item].args) >= 1
          /\ launchProgram(heap[item].args) = heap[item].args[1]
    /\ lastOp.op = "launch" => lastOp.res # "undefined"

\* launch has just been called for an item made from an entry that has no
\* Exec key; its one argument, the empty string, is the program.
ArgsNeverEmptyWitness ==
    /\ lastOp.op = "launch"
    /\ lastOp.num \in Store
    /\ "Exec" \notin entryOf(lastOp.num).has
    /\ heap[lastOp.num].args = << <<>> >>
    /\ launchProgram(heap[lastOp.num].args) = <<>>

====
